---------------------------- MODULE Spec2Model ----------------------------
(***************************************************************************)
(* A model of the retrieval-augmented question answering pipeline of       *)
(* Small_Language_Model.ipynb: chunk_text, build_faiss_index,              *)
(* retrieve_text, generate_answer, answer_question and the interactive     *)
(* loop.                                                                   *)
(*                                                                         *)
(* Strings are sequences of one-character strings.  The characters are     *)
(* "w" (a character of a word), " " (whitespace) and "!" (a punctuation    *)
(* mark that ends a sentence).                                             *)
(***************************************************************************)
EXTENDS Integers, Sequences, FiniteSets, TLC

VARIABLES
    \* the interactive cell (the __main__ loop)
    pc,               \* "input" | "loop" | "exit"
    book_text,        \* the text read by input("Enter the book text: ")
    prev_text,        \* history: the text of the previous run of the cell
    prev_answered,    \* history: a question was answered on prev_text
    answers,          \* answer_question calls made on book_text so far
    outcome,          \* of the last answer_question call: "none" | "ok" | an error
    trace,            \* the functions the last answer_question call entered
    labels,           \* indices[0] of the last index.search
    relevant_text,    \* the list retrieve_text returned
    combined_context, \* " ".join(relevant_text)
    answer,           \* what generate_answer returned
    \* a call chunk_text(c_text, c_size)
    c_pc, c_text, c_size, c_chunks, c_groups,
    \* a call retrieve_text(query, r_chunks, index, ..., r_topk)
    r_pc, r_chunks, r_emb, r_query, r_topk, r_labels, r_result

main_vars == <<pc, book_text, prev_text, prev_answered, answers, outcome,
               trace, labels, relevant_text, combined_context, answer>>
chunk_vars == <<c_pc, c_text, c_size, c_chunks, c_groups>>
retrieve_vars == <<r_pc, r_chunks, r_emb, r_query, r_topk, r_labels, r_result>>
vars == <<main_vars, chunk_vars, retrieve_vars>>

---------------------------------------------------------------------------
(* Bounds of the model. *)

\* the longest text given to chunk_text, in pieces (see Pieces)
MaxPieces == 7
\* the largest chunk_size given to chunk_text
MaxChunkSize == 4
\* the chunk size answer_question uses, standing for the default of 200
\* words (line 141) so that a text of a few words spans several passages
ChunkSize == 2
\* embeddings are one-dimensional, with coordinates 0..MaxCoord
MaxCoord == 2
\* the largest top_k given to retrieve_text
MaxTopK == 4
\* questions asked per run of the interactive cell
MaxQuestions == 2

\* top_k=3, the default of retrieve_text, which answer_question relies on
DefaultTopK == 3

---------------------------------------------------------------------------
(* Strings. *)

RECURSIVE Flatten(_)
\* the concatenation of a sequence of sequences
Flatten(ss) == IF ss = <<>> THEN <<>> ELSE Head(ss) \o Flatten(Tail(ss))

RECURSIVE join(_)
\* " ".join(strs)
join(strs) ==
    IF strs = <<>> THEN <<>>
    ELSE IF Len(strs) = 1 THEN Head(strs)
    ELSE Head(strs) \o <<" ">> \o join(Tail(strs))

\* len(s.split()): the number of maximal runs of non-whitespace characters
split_len(s) ==
    Cardinality({i \in 1..Len(s) : s[i] # " " /\ (i = 1 \/ s[i-1] = " ")})

RECURSIVE rstrip_len(_, _)
\* len(text[:n].rstrip())
rstrip_len(text, n) ==
    IF n = 0 \/ text[n] # " " THEN n ELSE rstrip_len(text, n - 1)

RECURSIVE NextTok(_, _)
\* where the token at or after position j starts
NextTok(text, j) == IF text[j] # " " THEN j ELSE NextTok(text, j + 1)

RECURSIVE SlicesFrom(_, _, _, _)
\* The sentences of text from position last_break on, text being read at
\* position i and end being len(text.rstrip()).  A sentence ends at a "!"
\* that whitespace and then a next token follow; the next sentence starts at
\* that token, the whitespace between them is dropped.  The last sentence
\* has no trailing whitespace, and an empty last sentence is not a sentence.
SlicesFrom(text, last_break, i, end) ==
    IF i > end
    THEN IF last_break <= end THEN << SubSeq(text, last_break, end) >> ELSE <<>>
    ELSE IF text[i] = "!" /\ i + 1 < end /\ text[i + 1] = " "
    THEN << SubSeq(text, last_break, i) >>
         \o SlicesFrom(text, NextTok(text, i + 1), NextTok(text, i + 1), end)
    ELSE SlicesFrom(text, last_break, i + 1, end)

\* nltk's sent_tokenize(text), for texts of the three characters
sent_tokenize(text) == SlicesFrom(text, 1, 1, rstrip_len(text, Len(text)))

---------------------------------------------------------------------------
(* chunk_text *)

\* the locals of chunk_text before the loop; groups records, for each passage
\* appended to chunks, the list current_chunk it was joined from
ChunkStart ==
    [chunks |-> <<>>, groups |-> <<>>, current_chunk |-> <<>>, current_length |-> 0]

\* mutant: the boundary test misses the case of equality
chunk_step_gt(st, sentence, chunk_size) ==
    LET len == st.current_length + split_len(sentence)
        cur == Append(st.current_chunk, sentence)
    IN  IF len > chunk_size
        THEN [chunks |-> Append(st.chunks, join(cur)),
              groups |-> Append(st.groups, cur),
              current_chunk |-> <<>>, current_length |-> 0]
        ELSE [st EXCEPT !.current_chunk = cur, !.current_length = len]

\* mutant: the running count counts sentences, not words
chunk_step_count(st, sentence, chunk_size) ==
    LET len == st.current_length + 1
        cur == Append(st.current_chunk, sentence)
    IN  IF len >= chunk_size
        THEN [chunks |-> Append(st.chunks, join(cur)),
              groups |-> Append(st.groups, cur),
              current_chunk |-> <<>>, current_length |-> 0]
        ELSE [st EXCEPT !.current_chunk = cur, !.current_length = len]

\* one iteration of "for sentence in sentences"
chunk_step(st, sentence, chunk_size) ==
    LET len == st.current_length + split_len(sentence)
        cur == Append(st.current_chunk, sentence)
    IN  IF len >= chunk_size
        THEN [chunks |-> Append(st.chunks, join(cur)),
              groups |-> Append(st.groups, cur),
              current_chunk |-> <<>>, current_length |-> 0]
        ELSE [st EXCEPT !.current_chunk = cur, !.current_length = len]

RECURSIVE chunk_loop(_, _, _)
\* the loop over the sentences
chunk_loop(sentences, st, chunk_size) ==
    IF sentences = <<>> THEN st
    ELSE chunk_loop(Tail(sentences), chunk_step(st, Head(sentences), chunk_size),
                    chunk_size)

\* mutant: the sentences left after the last boundary are dropped
chunk_flush_never(st) == st

\* mutant: the final passage is appended without the test "if current_chunk"
chunk_flush_always(st) ==
    [st EXCEPT !.chunks = Append(st.chunks, join(st.current_chunk)),
               !.groups = Append(st.groups, st.current_chunk)]

\* "if current_chunk: chunks.append(...)" after the loop
chunk_flush(st) ==
    IF st.current_chunk # <<>>
    THEN [st EXCEPT !.chunks = Append(st.chunks, join(st.current_chunk)),
                    !.groups = Append(st.groups, st.current_chunk)]
    ELSE st

\* chunk_text's locals at its return
chunk_run(text, chunk_size) ==
    chunk_flush(chunk_loop(sent_tokenize(text), ChunkStart, chunk_size))

\* chunk_text(text, chunk_size)
chunk_text(text, chunk_size) == chunk_run(text, chunk_size).chunks

\* the sentences each passage of chunk_text(text, chunk_size) was joined from
chunk_groups(text, chunk_size) == chunk_run(text, chunk_size).groups

---------------------------------------------------------------------------
(* Texts. *)

\* A text is a concatenation of pieces: a word character, a blank, or a
\* sentence end followed by a blank.
Pieces == { <<"w">>, <<" ">>, <<"!", " ">> }

Texts(n) == { Flatten(p) : p \in UNION { [1..k -> Pieces] : k \in 0..n } }

---------------------------------------------------------------------------
(* A call of chunk_text on any text and any chunk size. *)

MainIdle ==
    /\ pc = "input" /\ book_text = <<>> /\ prev_text = <<>>
    /\ prev_answered = FALSE /\ answers = 0 /\ outcome = "none"
    /\ trace = <<>> /\ labels = <<>> /\ relevant_text = <<>>
    /\ combined_context = <<>> /\ answer = <<>>

ChunkIdle ==
    /\ c_pc = "idle" /\ c_text = <<>> /\ c_size = 0
    /\ c_chunks = <<>> /\ c_groups = <<>>

RetrieveIdle ==
    /\ r_pc = "idle" /\ r_chunks = <<>> /\ r_emb = <<>> /\ r_query = 0
    /\ r_topk = 0 /\ r_labels = <<>> /\ r_result = <<>>

InitChunk ==
    /\ MainIdle /\ RetrieveIdle
    /\ c_pc = "call"
    /\ c_text \in Texts(MaxPieces)
    /\ c_size \in 0..MaxChunkSize
    /\ c_chunks = <<>> /\ c_groups = <<>>

ChunkCall ==
    /\ c_pc = "call"
    /\ c_pc' = "returned"
    /\ c_chunks' = chunk_text(c_text, c_size)
    /\ c_groups' = chunk_groups(c_text, c_size)
    /\ UNCHANGED <<c_text, c_size, main_vars, retrieve_vars>>

NextChunk == ChunkCall

SpecChunk == InitChunk /\ [][NextChunk]_vars

---------------------------------------------------------------------------
(* encode_text, build_faiss_index and retrieve_text *)

\* The embedding of a text is a coordinate: the encoder is a capability
\* outside the repository, and any vector may come out of it.
Coords == 0..MaxCoord

\* the squared Euclidean distance of faiss.IndexFlatL2
L2(e, q) == (e - q) * (e - q)

\* the sequences in which each of 1..n occurs once
Orderings(n) ==
    {o \in [1..n -> 1..n] : \A i \in 1..n : \A j \in (i+1)..n : o[i] # o[j]}

\* The orders in which an exact search may rank the vectors of the index:
\* by distance to the query, lowest first, vectors at the same distance in
\* any order.
SearchOrders(index, query_embedding) ==
    {o \in Orderings(Len(index)) :
        \A i \in 1..(Len(index) - 1) :
            L2(index[o[i]], query_embedding) <= L2(index[o[i+1]], query_embedding)}

\* indices[0] of index.search(query_embedding, top_k) on an index of ntotal
\* vectors that the search ranks in order: the positions (from 0) of the
\* top_k nearest vectors, and -1 in each place for which the index holds no
\* vector
search(ntotal, order, top_k) ==
    [j \in 1..top_k |-> IF j <= ntotal THEN order[j] - 1 ELSE -1]

\* whether the Python expression list[i] raises IndexError
IndexError(list, i) == i >= Len(list) \/ i < 0 - Len(list)

\* the Python expression list[i]: a negative i counts from the end
GetItem(list, i) == IF i >= 0 THEN list[i + 1] ELSE list[Len(list) + i + 1]

\* mutant: the first top_k chunks are returned, whatever the search ranked
retrieve_text_first(chunks, ntotal, order, top_k) ==
    LET indices == [j \in 1..top_k |-> IF j <= ntotal THEN j - 1 ELSE -1]
    IN  IF \E j \in 1..top_k : IndexError(chunks, indices[j])
        THEN [raised |-> TRUE, indices |-> indices, result |-> <<>>]
        ELSE [raised |-> FALSE, indices |-> indices,
              result |-> [j \in 1..top_k |-> GetItem(chunks, indices[j])]]

\* retrieve_text(query, chunks, index, model, tokenizer, top_k), for an index
\* of ntotal vectors and the rank order the search finds for the query:
\* [chunks[i] for i in indices[0]]
retrieve_text(chunks, ntotal, order, top_k) ==
    LET indices == search(ntotal, order, top_k)
    IN  IF \E j \in 1..top_k : IndexError(chunks, indices[j])
        THEN [raised |-> TRUE, indices |-> indices, result |-> <<>>]
        ELSE [raised |-> FALSE, indices |-> indices,
              result |-> [j \in 1..top_k |-> GetItem(chunks, indices[j])]]

---------------------------------------------------------------------------
(* generate_answer and answer_question *)

\* generate_answer(context, question, ...): the prompt
\* f"question: {question} context: {context}" and what the generator, a
\* capability outside the repository, makes of it
generate_answer(context, question) ==
    <<"generated from", "question: ", question, " context: ">> \o context

\* the calls answer_question makes, in order, when nothing raises
FullTrace ==
    <<"chunk_text", "build_faiss_index", "encode_text",
      "retrieve_text", "encode_text", "generate_answer">>

\* what an answer_question call leaves when it raises after the calls tr
Raised(error, tr, indices) ==
    [outcome |-> error, trace |-> tr, labels |-> indices,
     relevant_text |-> <<>>, combined_context |-> <<>>, answer |-> <<>>]

\* mutant: the chunks and the index are kept from an earlier call
answer_question_cached(text, question, order, empty_encode) ==
    LET chunks == chunk_text(text, ChunkSize)
        got == retrieve_text(chunks, Len(chunks), order, DefaultTopK)
    IN  IF got.raised
        THEN Raised("IndexError", <<"retrieve_text", "encode_text">>, got.indices)
        ELSE [outcome |-> "ok",
              trace |-> <<"retrieve_text", "encode_text", "generate_answer">>,
              labels |-> got.indices,
              relevant_text |-> got.result,
              combined_context |-> join(got.result),
              answer |-> generate_answer(join(got.result), question)]

\* answer_question(book_text, question).  build_faiss_index adds one
\* embedding per chunk to the index, and order is the rank order the search
\* finds for the question's embedding: the encoder being any encoder, any
\* order.  encode_text on an empty list of chunks depends on the tokenizer
\* and the encoder: it raises (empty_encode = "raises"), or returns no
\* embedding (empty_encode = "empty"), and then the search of the empty
\* index returns -1 three times and chunks[-1] raises IndexError.
answer_question(text, question, order, empty_encode) ==
    LET chunks == chunk_text(text, ChunkSize)
        got == retrieve_text(chunks, Len(chunks), order, DefaultTopK)
    IN  IF chunks = <<>> /\ empty_encode = "raises"
        THEN Raised("EncodeError", SubSeq(FullTrace, 1, 3), <<>>)
        ELSE IF got.raised
        THEN Raised("IndexError", SubSeq(FullTrace, 1, 5), got.indices)
        ELSE [outcome |-> "ok",
              trace |-> FullTrace,
              labels |-> got.indices,
              relevant_text |-> got.result,
              combined_context |-> join(got.result),
              answer |-> generate_answer(join(got.result), question)]

---------------------------------------------------------------------------
(* The interactive cell. *)

\* the texts entered as book text: an empty one, one of whitespace only, and
\* texts of one to four sentences of one or two words
Books ==
    { <<>>,
      <<" ", " ">>,
      <<"w", " ", "w", "!">>,
      <<"w", " ", "w", "!", " ", "w", "!">>,
      <<"w", "!", " ", "w", " ", "w", "!", " ", "w", " ", "w", "!", " ", "w">>,
      <<"w", " ", "w", "!", " ", "w", " ", "w", "!", " ", "w", " ", "w", "!",
        " ", "w", "!">> }

\* the orders in which a search may rank the chunks of a book text
BookOrderings ==
    [text \in Books |-> Orderings(Len(chunk_text(text, ChunkSize)))]

\* what encode_text may do with the chunks of a book text: it has a choice
\* only when there is no chunk
EmptyEncodes ==
    [text \in Books |->
        IF chunk_text(text, ChunkSize) = <<>> THEN {"raises", "empty"}
        ELSE {"encodes"}]

\* what is typed at "Ask a question (or type 'exit' to quit): "
Inputs == {"What?", "Who?", "exit", "EXIT"}

\* question.lower(), on Inputs
lower(question) == IF question = "EXIT" THEN "exit" ELSE question

\* no previous run of the cell
NoText == <<"(none)">>

Init ==
    /\ ChunkIdle /\ RetrieveIdle
    /\ pc = "input" /\ book_text = <<>> /\ prev_text = NoText
    /\ prev_answered = FALSE /\ answers = 0 /\ outcome = "none"
    /\ trace = <<>> /\ labels = <<>> /\ relevant_text = <<>>
    /\ combined_context = <<>> /\ answer = <<>>

\* book_text = input("Enter the book text: ")
ReadBook ==
    /\ pc = "input"
    /\ \E text \in Books : book_text' = text
    /\ pc' = "loop"
    /\ UNCHANGED <<prev_text, prev_answered, answers, outcome, trace, labels,
                   relevant_text, combined_context, answer>>
    /\ UNCHANGED <<chunk_vars, retrieve_vars>>

\* A question is read and answer_question is called on text; an exception it
\* raises is not caught and ends the cell.
Ask(text) ==
    /\ pc = "loop"
    /\ answers < MaxQuestions
    /\ \E question \in Inputs :
         /\ lower(question) # "exit"
         /\ \E order \in BookOrderings[text],
               empty_encode \in EmptyEncodes[text] :
                LET r == answer_question(text, question, order, empty_encode)
                IN  /\ outcome' = r.outcome
                    /\ trace' = r.trace
                    /\ labels' = r.labels
                    /\ relevant_text' = r.relevant_text
                    /\ combined_context' = r.combined_context
                    /\ answer' = r.answer
                    /\ pc' = IF r.outcome = "ok" THEN "loop" ELSE "exit"
    /\ answers' = answers + 1
    /\ UNCHANGED <<book_text, prev_text, prev_answered>>
    /\ UNCHANGED <<chunk_vars, retrieve_vars>>

\* mutant: the question is answered from the text of the previous run
AskQuestionStale == Ask(IF prev_text # NoText THEN prev_text ELSE book_text)

\* answer = answer_question(book_text, question); print("Answer:", answer)
AskQuestion == Ask(book_text)

\* if question.lower() == 'exit': break
Exit ==
    /\ pc = "loop"
    /\ \E question \in Inputs : lower(question) = "exit"
    /\ pc' = "exit"
    /\ UNCHANGED <<book_text, prev_text, prev_answered, answers, outcome, trace,
                   labels, relevant_text, combined_context, answer>>
    /\ UNCHANGED <<chunk_vars, retrieve_vars>>

\* The cell is run again: a new book text will be read.
RerunCell ==
    /\ pc = "exit"
    /\ pc' = "input"
    /\ prev_text' = book_text
    /\ prev_answered' = (answers > 0 /\ outcome = "ok")
    /\ answers' = 0
    /\ outcome' = "none" /\ trace' = <<>> /\ labels' = <<>>
    /\ relevant_text' = <<>> /\ combined_context' = <<>> /\ answer' = <<>>
    /\ UNCHANGED book_text
    /\ UNCHANGED <<chunk_vars, retrieve_vars>>

Next == ReadBook \/ AskQuestion \/ Exit \/ RerunCell

Spec == Init /\ [][Next]_vars

---------------------------------------------------------------------------
(* A call of retrieve_text on the chunks of a text, any embeddings and any   *)
(* top_k.                                                                   *)

InitRetrieve ==
    /\ MainIdle /\ ChunkIdle
    /\ r_pc = "call"
    /\ r_chunks \in {chunk_text(text, ChunkSize) : text \in Books} \ {<<>>}
    /\ r_emb \in [1..Len(r_chunks) -> Coords]
    /\ r_query \in Coords
    /\ r_topk \in 1..MaxTopK
    /\ r_labels = <<>> /\ r_result = <<>>

RetrieveCall ==
    /\ r_pc = "call"
    /\ \E order \in SearchOrders(r_emb, r_query) :
         LET got == retrieve_text(r_chunks, Len(r_emb), order, r_topk)
         IN  /\ r_pc' = IF got.raised THEN "raised" ELSE "returned"
             /\ r_labels' = got.indices
             /\ r_result' = got.result
    /\ UNCHANGED <<r_chunks, r_emb, r_query, r_topk, main_vars, chunk_vars>>

NextRetrieve == RetrieveCall

SpecRetrieve == InitRetrieve /\ [][NextRetrieve]_vars

---------------------------------------------------------------------------
(* The claim about retrieve_text, checked under SpecRetrieve. *)

Range(s) == {s[i] : i \in 1..Len(s)}

\* C2: with top_k at most the number of chunks, retrieve_text returns top_k
\* passages, each the chunk at a position the search returned, in an order
\* in which the distance of the passage's embedding to the query's never
\* decreases.
C2_TopKByDistance ==
    (r_pc # "call" /\ r_topk <= Len(r_chunks)) =>
        /\ r_pc = "returned"
        /\ Len(r_result) = r_topk
        /\ \A j \in 1..r_topk :
              /\ r_labels[j] \in 0..(Len(r_chunks) - 1)
              /\ r_result[j] = r_chunks[r_labels[j] + 1]
              /\ r_result[j] \in Range(r_chunks)
        /\ \A j \in 1..(r_topk - 1) :
              L2(r_emb[r_labels[j] + 1], r_query)
                  <= L2(r_emb[r_labels[j + 1] + 1], r_query)

C2_Witness ==
    /\ r_pc = "returned"
    /\ Len(r_chunks) >= 3 /\ r_topk = 2
    /\ r_labels[1] > r_labels[2]
    /\ L2(r_emb[r_labels[1] + 1], r_query) < L2(r_emb[r_labels[2] + 1], r_query)
    /\ r_result[1] # r_result[2]

---------------------------------------------------------------------------
(* The claims about answer_question and the interactive cell, checked under *)
(* Spec.                                                                    *)

\* the chunks answer_question makes of the book text
BookChunks == chunk_text(book_text, ChunkSize)

\* C3, as claimed: on a book text of fewer chunks than top_k = 3, and at
\* least one, the answer does not raise and retrieves as many passages as
\* there are chunks.
C3_AsClaimed ==
    (answers >= 1 /\ Len(BookChunks) >= 1 /\ Len(BookChunks) < DefaultTopK) =>
        /\ outcome = "ok"
        /\ Len(relevant_text) = Len(BookChunks)

\* C4: every passage an answer retrieves, and so all of the context given to
\* the generator, comes from the chunks of the book text read last, also
\* when questions were answered on another book text before.
C4_OnlyCurrentBook ==
    (answers >= 1 /\ outcome = "ok") =>
        /\ \A j \in 1..Len(relevant_text) : relevant_text[j] \in Range(BookChunks)
        /\ combined_context = join(relevant_text)

C4_Witness ==
    /\ prev_text # NoText /\ prev_answered /\ prev_text # book_text
    /\ answers >= 1 /\ outcome = "ok"
    /\ \E j \in 1..Len(relevant_text) :
          relevant_text[j] \notin Range(chunk_text(prev_text, ChunkSize))

C7_AsClaimed ==
    (answers >= 1 /\ split_len(book_text) = 0) =>
        /\ BookChunks = <<>>
        /\ outcome = "ok"
        /\ "generate_answer" \in Range(trace)
        /\ combined_context = <<>>

---------------------------------------------------------------------------
(* The claims about chunk_text, checked under SpecChunk. *)

RECURSIVE words(_)
\* the running word count of a list of sentences
words(sentences) ==
    IF sentences = <<>> THEN 0
    ELSE split_len(Head(sentences)) + words(Tail(sentences))

\* all but the last element
Front(s) == SubSeq(s, 1, Len(s) - 1)

\* C1: joining the passages chunk_text returns, in order, gives the joined
\* sentences of the text: the passages are joins of consecutive sentences,
\* every sentence is in exactly one passage, in the order of the text.
C1_RoundTrip ==
    c_pc = "returned" =>
        /\ join(c_chunks) = join(sent_tokenize(c_text))
        /\ Flatten(c_groups) = sent_tokenize(c_text)
        /\ Len(c_chunks) = Len(c_groups)
        /\ \A g \in 1..Len(c_chunks) : c_chunks[g] = join(c_groups[g])

C1_Witness ==
    /\ c_pc = "returned"
    /\ Len(sent_tokenize(c_text)) >= 3
    /\ Len(c_chunks) = 2
    /\ Len(c_groups[2]) = 1

\* C8, as claimed: for a text that is not empty no passage is empty, and a
\* text with fewer words than chunk_size gives exactly one passage.
C8_AsClaimed ==
    (c_pc = "returned" /\ c_text # <<>>) =>
        /\ \A g \in 1..Len(c_chunks) : c_chunks[g] # <<>>
        /\ split_len(c_text) < c_size => Len(c_chunks) = 1

\* C8, amended: no passage is empty (each holds a word), and a text that
\* holds a sentence and has fewer words than chunk_size gives exactly one
\* passage; a text without a sentence (empty, or whitespace only) gives none.
C8_NoEmptyPassage ==
    c_pc = "returned" =>
        /\ \A g \in 1..Len(c_chunks) :
              c_chunks[g] # <<>> /\ split_len(c_chunks[g]) >= 1
        /\ (sent_tokenize(c_text) # <<>> /\ split_len(c_text) < c_size)
              => Len(c_chunks) = 1
        /\ sent_tokenize(c_text) = <<>> => c_chunks = <<>>

C8_Witness ==
    /\ c_pc = "returned"
    /\ Len(sent_tokenize(c_text)) >= 2
    /\ split_len(c_text) < c_size
    /\ Len(c_chunks) = 1

\* C9: for a chunk_size of at least one word, every passage but the last has
\* a running word count of chunk_size or more, and every passage has a
\* running count below chunk_size before its last sentence: a passage is
\* closed by the first sentence with which the count, restarted from zero
\* after each boundary, reaches chunk_size.
C9_Boundaries ==
    (c_pc = "returned" /\ c_size >= 1) =>
        /\ Flatten(c_groups) = sent_tokenize(c_text)
        /\ \A g \in 1..Len(c_groups) :
              /\ c_groups[g] # <<>>
              /\ g < Len(c_groups) => words(c_groups[g]) >= c_size
              /\ words(Front(c_groups[g])) < c_size

C9_Witness ==
    /\ c_pc = "returned" /\ c_size >= 2
    /\ Len(c_groups) >= 2
    /\ Len(c_groups[1]) >= 2
    /\ words(c_groups[1]) > c_size
    /\ words(c_groups[Len(c_groups)]) < c_size

\* C10, as claimed: a sentence of more than chunk_size words is alone in the
\* passage that holds it.
C10_AsClaimed ==
    c_pc = "returned" =>
        \A g \in 1..Len(c_groups) : \A j \in 1..Len(c_groups[g]) :
            split_len(c_groups[g][j]) > c_size => Len(c_groups[g]) = 1

\* C10, amended: a sentence of more than chunk_size words is the last
\* sentence of the passage that holds it, which also holds the sentences
\* accumulated since the boundary before it; and no sentence is split: the
\* passages are joins of whole consecutive sentences.
C10_LongSentenceEndsPassage ==
    c_pc = "returned" =>
        /\ \A g \in 1..Len(c_groups) : \A j \in 1..Len(c_groups[g]) :
              split_len(c_groups[g][j]) > c_size => j = Len(c_groups[g])
        /\ Flatten(c_groups) = sent_tokenize(c_text)
        /\ \A g \in 1..Len(c_groups) : c_chunks[g] = join(c_groups[g])

C10_Witness ==
    /\ c_pc = "returned" /\ c_size >= 1
    /\ \E g \in 1..Len(c_groups) :
          /\ Len(c_groups[g]) = 2
          /\ split_len(c_groups[g][2]) > c_size
          /\ g < Len(c_groups)


=============================================================================
